---- MODULE Spec2Model ----
(***************************************************************************)
(* Task-progress broadcasting engine of MoWebApp.                          *)
(*                                                                         *)
(* The server is one Node.js process.  MemStorage resolves every promise   *)
(* at once, so an `await` on a storage call only yields to the microtask   *)
(* queue, which drains before the next macrotask: the code between two     *)
(* real waits (an HTTP request arriving, a timer, the oracle's reply)      *)
(* runs without interleaving, and is one action here.                      *)
(*                                                                         *)
(* Two route files exist: server/routes.ts, which talks to the oracle      *)
(* inline (variant "inline", service = ExternalAgentService), and the      *)
(* polling routes of unnamed/part_001, which delegate to AgentService      *)
(* (variant "polling").  Spec is the server as wired; ApiSpec adds direct  *)
(* calls of the exported service's processTask.                            *)
(***************************************************************************)
EXTENDS Integers, Sequences, FiniteSets, TLC

\* Bounds of the model.
MaxTasks == 2   \* POST /api/tasks requests
MaxRuns == 2    \* invocations of the processor, POSTs included
MaxCalls == 1   \* direct processTask calls among them (ApiSpec)
MaxSteps == 2   \* length of the oracle's reply
MaxTicks == 1   \* ticks of the progress pollers, all together
MaxCount == 20  \* message counts the progress estimate is computed for
MaxMessages == 3  \* createMessage calls on the store alone (StoreSpec)
MaxClock == 2   \* clock readings 0..MaxClock (StoreSpec)
MaxConns == 2   \* connections accepted by the hub (HubSpec)
MaxBroadcasts == 2  \* calls of the hub's broadcast (HubSpec)
MaxWords == 3   \* words of a prompt given to the generator (GenSpec)
MaxOpens == 2   \* WebSockets the page opens (HomeSpec)

VARIABLES
    variant,           \* which route file is deployed
    tasks,             \* MemStorage.tasks: id -> Task
    currentTaskId,     \* MemStorage.currentTaskId
    messages,          \* MemStorage.messages, in insertion order
    currentMessageId,  \* MemStorage.currentMessageId
    now,               \* the clock createMessage reads (new Date()); the
                       \* processors' writes each read a later value
    activeProcessing,  \* the service's activeProcessing map
    runs,              \* the invocations of the processor, in start order
    events,            \* the broadcasts made for each task id, in order
    responses,         \* POST responses given: task id -> task returned
    clients,           \* the hub's registry (a Map), in insertion order
    sockets,           \* the WebSocket connections accepted so far
    hubLog,            \* the calls of the hub's broadcast, in order
    genPrompt,         \* a prompt given to the local generator
    genFlow,           \* the flow the generator made of it
    apiResponse,       \* an array of the oracle given to a parser
    parsedFlow,        \* the steps the parser made of it
    returned,          \* what the last updateTaskStatus of a caller of
                       \* the store returned
    home               \* the state of the page (the Home component) and
                       \* of its WebSocket

hub == <<clients, sockets, hubLog>>
gen == <<genPrompt, genFlow, apiResponse, parsedFlow, returned, home>>
vars == <<variant, tasks, currentTaskId, messages, currentMessageId, now,
          activeProcessing, runs, events, responses, clients, sockets,
          hubLog, genPrompt, genFlow, apiResponse, parsedFlow, returned,
          home>>

Variants == {"inline", "polling"}
TaskIds == 1..MaxTasks
Terminal == {"completed", "failed"}

\* A prompt is spelled out, one character to a piece.
Prompts == {<<"b", "o", "o", "k">>}

----------------------------------------------------------------------------
(* MemStorage *)

createTask(prompt) ==
    [id |-> currentTaskId, prompt |-> prompt, status |-> "pending",
     completedAt |-> "null"]

getTask(T, id) == IF id \in DOMAIN T THEN T[id] ELSE "undefined"

updateTaskStatus(T, id, status, completedAt) ==
    IF id \in DOMAIN T
    THEN [T EXCEPT ![id] = [@ EXCEPT !.status = status,
                                     !.completedAt = completedAt]]
    ELSE T

\* Mutant of createMessage: each message is dated before the previous one.
M_createMessageBackdated(M, mid, taskId, step, run) ==
    Append(M, [id |-> mid, taskId |-> taskId, agent |-> step.agent,
               message |-> step.message, messageType |-> step.messageType,
               timestamp |-> now - mid, run |-> run])

\* Mutant of createMessage: every message is filed under the first task.
M_createMessageFirstTask(M, mid, taskId, step, run) ==
    Append(M, [id |-> mid, taskId |-> 1, agent |-> step.agent,
               message |-> step.message, messageType |-> step.messageType,
               timestamp |-> now, run |-> run])

createMessage(M, mid, taskId, step, run) ==
    Append(M, [id |-> mid, taskId |-> taskId, agent |-> step.agent,
               message |-> step.message, messageType |-> step.messageType,
               timestamp |-> now, run |-> run])

\* Mutant of compare: latest first.
M_compareDescending(a, b) == b.timestamp - a.timestamp

\* part_003 69: the comparator given to sort.
compare(a, b) == a.timestamp - b.timestamp

\* part_003 68: the filter, as the positions in M it keeps.
Own(M, taskId) == {k \in DOMAIN M : M[k].taskId = taskId}

\* part_003 69: Array.prototype.sort is stable, so the message at position
\* j goes after those that compare lower and after those that compare
\* equal and stand before it.
Rank(M, own, j) ==
    Cardinality({k \in own : \/ compare(M[k], M[j]) < 0
                             \/ compare(M[k], M[j]) = 0 /\ k < j}) + 1

\* part_003 66-70
getTaskMessages(M, taskId) ==
    LET own == Own(M, taskId)
        at == [j \in own |-> Rank(M, own, j)] IN
    [p \in 1..Cardinality(own) |-> M[CHOOSE j \in own : at[j] = p]]

getLatestMessage(M, taskId) ==
    LET ms == getTaskMessages(M, taskId) IN
    IF ms = <<>> THEN "undefined" ELSE ms[Len(ms)]

----------------------------------------------------------------------------
(* Broadcast hub: the log of broadcasts. *)

\* Progress values are fractions n/d, d > 0 (Math.min on numbers).
Frac(n, d) == [n |-> n, d |-> d]
FracLeq(a, b) == a.n * b.d <= b.n * a.d
FracMin(a, b) == IF FracLeq(a, b) THEN a ELSE b

Agents == {"supervisor", "phone", "venmo"}

\* The data of a taskError event: the task id and an error text, no
\* snapshot (the snapshot fields are only read on the other events).
ErrorData(taskId) ==
    [taskId |-> taskId, progress |-> Frac(0, 1), status |-> "",
     agentStatus |-> [a \in Agents |-> "idle"], cur |-> 0]

\* An event: its type, the fields of its data (cur is the id of the stored
\* message that data.currentMessage shows, 0 when it shows none of them),
\* and the run that published it.
broadcast(E, type, data, run) ==
    [E EXCEPT ![data.taskId] =
        Append(@, [type |-> type, taskId |-> data.taskId,
                   progress |-> data.progress, status |-> data.status,
                   agentStatus |-> data.agentStatus, cur |-> data.cur,
                   run |-> run])]

----------------------------------------------------------------------------
(* The oracle's reply.  An utterance is the set of marker phrases it       *)
(* contains; an item of the reply is a JSON value.                         *)

SeqUpTo(S, n) == UNION {[1..k -> S] : k \in 0..n}

Obj(key, val) == [shape |-> "object", key |-> key, val |-> val, str |-> TRUE]
NumObj(key) == [shape |-> "object", key |-> key, val |-> {}, str |-> FALSE]
Char == [shape |-> "char", key |-> "0", val |-> {"c"}, str |-> TRUE]

GoodItems == {Obj("venmo_agent", {"sent successfully"})}
BadItems == {NumObj("Supervisor")}

\* The arrays the oracle may send: well-formed items, then possibly one
\* malformed item (what follows an item that throws is never read).
Arrays ==
    SeqUpTo(GoodItems, MaxSteps)
    \cup {Append(s, b) : s \in SeqUpTo(GoodItems, MaxSteps - 1), b \in BadItems}

Bodies ==
    {[json |-> j, items |-> <<>>] :
        j \in {"unparseable", "null", "number", "object"}}
    \cup {[json |-> "string", items |-> <<Char>>]}
    \cup {[json |-> "array", items |-> s] : s \in Arrays}

\* What a request to the oracle ends in: the request fails, or a reply
\* comes with its status and body.
NoReply == [outcome |-> "", json |-> "none", items |-> <<>>]
Reply(outcome, body) ==
    [outcome |-> outcome, json |-> body.json, items |-> body.items]
ErrorBodies == {b \in Bodies : b.json = "object"}
Replies ==
    {[NoReply EXCEPT !.outcome = "reject"]}
    \cup {Reply("httpError", b) : b \in ErrorBodies}
    \cup {Reply("ok", b) : b \in Bodies}

\* String.prototype.toLowerCase on the keys the model uses and on single
\* characters.
Capitals == <<"A", "B", "C", "D", "E", "F", "G", "H", "I", "J", "K", "L", "M",
              "N", "O", "P", "Q", "R", "S", "T", "U", "V", "W", "X", "Y", "Z">>
Smalls == <<"a", "b", "c", "d", "e", "f", "g", "h", "i", "j", "k", "l", "m",
            "n", "o", "p", "q", "r", "s", "t", "u", "v", "w", "x", "y", "z">>
toLowerCase(s) ==
    CASE s = "Supervisor" -> "supervisor"
      [] s = "User" -> "user"
      [] s = "Phone_Agent" -> "phone_agent"
      [] OTHER -> IF \E k \in DOMAIN Capitals : Capitals[k] = s
                  THEN Smalls[CHOOSE k \in DOMAIN Capitals : Capitals[k] = s]
                  ELSE s

\* conversationFlow.length: defined for arrays and strings only.
HasLength(body) == body.json \in {"array", "string"}

\* routes.ts 177-182
InlineAgentName(stepKey) ==
    LET agentName == toLowerCase(stepKey) IN
    CASE agentName = "phone_agent" -> "phone"
      [] agentName = "venmo_agent" -> "venmo"
      [] OTHER -> agentName

\* routes.ts 185-192
InlineMessageType(stepMessage, agentName) ==
    IF "Transaction ID" \in stepMessage \/ "sent successfully" \in stepMessage
    THEN "success"
    ELSE IF "Let's go to" \in stepMessage THEN "delegation"
    ELSE IF agentName = "user" THEN "user_input"
    ELSE "processing"

\* routes.ts 173-192: Object.keys of a non-object is empty, so stepKey is
\* undefined and stepKey.toLowerCase() throws; a value that is no string has
\* no includes().
InlineThrows(item) == item.shape = "scalar" \/ ~item.str

InlineStep(item) ==
    [agent |-> InlineAgentName(item.key), message |-> item.val,
     messageType |-> InlineMessageType(item.val, InlineAgentName(item.key))]

\* routes.ts 126-144: the first broadcast; its currentMessage is made up
\* on the spot and is no stored message.
InlineInitial(taskId) ==
    [taskId |-> taskId, progress |-> Frac(10, 1), status |-> "processing",
     agentStatus |-> [a \in Agents |->
                        IF a = "supervisor" THEN "active" ELSE "idle"],
     cur |-> 0]

\* routes.ts 203-228: the snapshot sent after step i of len has been stored
\* as message mid.
InlineSnapshot(taskId, agentName, i, len, mid) ==
    [taskId |-> taskId,
     progress |-> FracMin(Frac(20 * len + i * 75, len), Frac(95, 1)),
     status |-> "processing",
     agentStatus |-> [a \in Agents |->
                        IF agentName = a THEN "active"
                        ELSE IF i = len - 1 THEN "complete" ELSE "idle"],
     cur |-> mid]

\* Mutant of InlineCompleted: the completion snapshot keeps the cap of 95.
M_InlineCompletedAt95(taskId) ==
    [taskId |-> taskId, progress |-> Frac(95, 1), status |-> "completed",
     agentStatus |-> [a \in Agents |-> "complete"], cur |-> 0]

\* routes.ts 237-249
InlineCompleted(taskId) ==
    [taskId |-> taskId, progress |-> Frac(100, 1), status |-> "completed",
     agentStatus |-> [a \in Agents |-> "complete"], cur |-> 0]

----------------------------------------------------------------------------
(* Runs of the processor. *)

NewRun(kind, route, taskId, pc) ==
    [kind |-> kind, route |-> route, taskId |-> taskId, pc |-> pc,
     flow |-> NoReply, i |-> 0, result |-> "running", error |-> "",
     poller |-> FALSE, ticks |-> 0]

Finish(run, result, error) ==
    [run EXCEPT !.pc = "done", !.result = result, !.error = error]

Running(r) == runs[r].pc # "done"

\* Mutant of InlineCatch: the catch marks the task failed and sends nothing.
M_InlineCatchSilent(r, i, body, error) ==
    LET t == runs[r].taskId IN
    /\ tasks' = updateTaskStatus(tasks, t, "failed", "null")
    /\ runs' = [runs EXCEPT ![r] = [Finish(@, "failed", error) EXCEPT
                                        !.flow = body, !.i = i]]
    /\ UNCHANGED <<hub, gen, variant, currentTaskId, messages, currentMessageId, now,
                   activeProcessing, responses, events>>

\* Mutant of InlineCatch: the failure is given as the answer to the POST.
M_InlineCatchAnswers(r, i, body, error) ==
    LET t == runs[r].taskId IN
    /\ tasks' = updateTaskStatus(tasks, t, "failed", "null")
    /\ events' = broadcast(events, "taskError", ErrorData(t), r)
    /\ runs' = [runs EXCEPT ![r] = [Finish(@, "failed", error) EXCEPT
                                        !.flow = body, !.i = i]]
    /\ responses' = [responses EXCEPT ![t] = tasks'[t]]
    /\ UNCHANGED <<hub, gen, variant, currentTaskId, messages, currentMessageId,
                   now, activeProcessing>>

\* routes.ts 251-262: the catch of the inline processor.
InlineCatch(r, i, body, error) ==
    LET t == runs[r].taskId IN
    /\ tasks' = updateTaskStatus(tasks, t, "failed", "null")
    /\ events' = broadcast(events, "taskError", ErrorData(t), r)
    /\ runs' = [runs EXCEPT ![r] = [Finish(@, "failed", error) EXCEPT
                                        !.flow = body, !.i = i]]
    /\ UNCHANGED <<hub, gen, variant, currentTaskId, messages, currentMessageId, now,
                   activeProcessing, responses>>

\* Mutant of InlineComplete: the completion is broadcast, the store is not
\* updated.
M_InlineCompleteNoStatus(r, i, body) ==
    LET t == runs[r].taskId IN
    /\ events' = broadcast(events, "taskCompleted", InlineCompleted(t), r)
    /\ runs' = [runs EXCEPT ![r] = [Finish(@, "completed", "") EXCEPT
                                        !.flow = body, !.i = i]]
    /\ UNCHANGED <<hub, gen, variant, tasks, currentTaskId, messages,
                   currentMessageId, now,
                   activeProcessing, responses>>

\* routes.ts 234-249
InlineComplete(r, i, body) ==
    LET t == runs[r].taskId IN
    /\ tasks' = updateTaskStatus(tasks, t, "completed", "date")
    /\ events' = broadcast(events, "taskCompleted", InlineCompleted(t), r)
    /\ runs' = [runs EXCEPT ![r] = [Finish(@, "completed", "") EXCEPT
                                        !.flow = body, !.i = i]]
    /\ UNCHANGED <<hub, gen, variant, currentTaskId, messages, currentMessageId, now,
                   activeProcessing, responses>>

\* routes.ts 194-231: store step i, broadcast it, sleep.
InlineEmit(r, i, body) ==
    LET t == runs[r].taskId
        step == InlineStep(body.items[i + 1]) IN
    /\ messages' = createMessage(messages, currentMessageId, t, step, r)
    /\ currentMessageId' = currentMessageId + 1
    /\ now' = now + 1
    /\ events' = broadcast(events, "taskProgress",
                         InlineSnapshot(t, step.agent, i, Len(body.items),
                                        currentMessageId), r)
    /\ runs' = [runs EXCEPT ![r] = [@ EXCEPT !.pc = "sleep", !.flow = body,
                                             !.i = i]]
    /\ UNCHANGED <<hub, gen, variant, tasks, currentTaskId, activeProcessing,
                   responses>>

\* Mutant of InlineIterate: the step is stored before its key and text are
\* looked at, so a step that throws has already been written.
M_InlineIterateStoresFirst(r, i, body) ==
    IF body.json = "null" THEN InlineCatch(r, i, body, "shape")
    ELSE IF ~HasLength(body) \/ i >= Len(body.items)
    THEN InlineComplete(r, i, body)
    ELSE IF InlineThrows(body.items[i + 1])
    THEN LET t == runs[r].taskId IN
         /\ messages' = createMessage(messages, currentMessageId, t,
                                      [agent |-> "undefined",
                                       message |-> body.items[i + 1].val,
                                       messageType |-> "processing"], r)
         /\ currentMessageId' = currentMessageId + 1
         /\ now' = now + 1
         /\ tasks' = updateTaskStatus(tasks, t, "failed", "null")
         /\ events' = broadcast(events, "taskError", ErrorData(t), r)
         /\ runs' = [runs EXCEPT ![r] = [Finish(@, "failed", "step") EXCEPT
                                             !.flow = body, !.i = i]]
         /\ UNCHANGED <<hub, gen, variant, currentTaskId, activeProcessing,
                        responses>>
    ELSE InlineEmit(r, i, body)

\* routes.ts 172-249, from the loop test with index i.
InlineIterate(r, i, body) ==
    IF body.json = "null" THEN InlineCatch(r, i, body, "shape")
    ELSE IF ~HasLength(body) \/ i >= Len(body.items)
    THEN InlineComplete(r, i, body)
    ELSE IF InlineThrows(body.items[i + 1]) THEN InlineCatch(r, i, body, "step")
    ELSE InlineEmit(r, i, body)

\* POST /api/tasks with routes.ts: routes.ts 57-65 and 121-156.
SubmitInline(prompt) ==
    LET task == createTask(prompt)
        t == currentTaskId
        r == Len(runs) + 1 IN
    /\ variant = "inline"
    /\ currentTaskId <= MaxTasks /\ Len(runs) < MaxRuns
    /\ currentTaskId' = currentTaskId + 1
    /\ responses' = (t :> task) @@ responses
    /\ tasks' = updateTaskStatus((t :> task) @@ tasks, t, "processing", "null")
    /\ events' = broadcast(events, "taskProgress", InlineInitial(t), r)
    /\ runs' = Append(runs, NewRun("inline", TRUE, t, "fetch"))
    /\ UNCHANGED <<hub, gen, variant, messages, currentMessageId, now,
                   activeProcessing>>

\* Mutant of FetchReply: response.ok is not looked at.
M_FetchReplyNoOkCheck(r, reply) ==
    /\ runs[r].kind = "inline" /\ runs[r].pc = "fetch"
    /\ IF reply.outcome = "reject" THEN InlineCatch(r, 0, reply, "network")
       ELSE IF reply.json = "unparseable"
       THEN InlineCatch(r, 0, reply, "parse")
       ELSE InlineIterate(r, 0, reply)

\* routes.ts 147-172: the oracle's reply has arrived (fetch, then
\* response.text(), both waits on the one reply) and is parsed.
FetchReply(r, reply) ==
    /\ runs[r].kind = "inline" /\ runs[r].pc = "fetch"
    /\ IF reply.outcome # "ok"
       THEN InlineCatch(r, 0, reply,
                        IF reply.outcome = "httpError" THEN "http"
                        ELSE "network")
       ELSE IF reply.json = "unparseable"
       THEN InlineCatch(r, 0, reply, "parse")
       ELSE InlineIterate(r, 0, reply)

\* routes.ts 231-232: the pacing timer fires, the loop goes on.
TimerInline(r) ==
    /\ runs[r].kind = "inline" /\ runs[r].pc = "sleep"
    /\ InlineIterate(r, runs[r].i + 1, runs[r].flow)

----------------------------------------------------------------------------
(* AgentService and ExternalAgentService. *)

\* A text is a sequence of pieces and a prompt is spelled one character
\* to a piece, so that includes and the two regular expressions read it as
\* the code does.  Glyphs outside ASCII are written in ASCII.
UpperCase == {Capitals[k] : k \in DOMAIN Capitals}
LowerCase == {Smalls[k] : k \in DOMAIN Smalls}
Digits == {"0", "1", "2", "3", "4", "5", "6", "7", "8", "9"}
Space == {" "}

\* prompt.toLowerCase()
lower(text) == [k \in DOMAIN text |-> toLowerCase(text[k])]

\* String.prototype.includes
includes(text, word) ==
    \E i \in 1..(Len(text) - Len(word) + 1) :
        SubSeq(text, i, i + Len(word) - 1) = word

\* The word stands at position i of the text.
At(text, i, word) ==
    /\ i + Len(word) - 1 <= Len(text)
    /\ SubSeq(text, i, i + Len(word) - 1) = word

\* Where the longest run of characters of S that starts at i ends; i - 1
\* when there is none.
RunEnd(text, i, S) ==
    CHOOSE j \in (i - 1)..Len(text) :
        /\ \A k \in i..j : text[k] \in S
        /\ j = Len(text) \/ text[j + 1] \notin S

Least(S) == CHOOSE i \in S : \A j \in S : i <= j

\* part_001 262-270
PaymentKeywords == {<<"s", "e", "n", "d">>,
                    <<"p", "a", "y">>,
                    <<"t", "r", "a", "n", "s", "f", "e", "r">>,
                    <<"v", "e", "n", "m", "o">>,
                    <<"$">>,
                    <<"m", "o", "n", "e", "y">>,
                    <<"p", "a", "y", "m", "e", "n", "t">>}
CallKeywords == {<<"c", "a", "l", "l">>,
                 <<"p", "h", "o", "n", "e">>,
                 <<"c", "o", "n", "t", "a", "c", "t">>,
                 <<"s", "p", "e", "a", "k">>,
                 <<"t", "a", "l", "k">>,
                 <<"c", "o", "n", "f", "i", "r", "m">>,
                 <<"a", "s", "k">>}
containsPaymentKeywords(prompt) ==
    \E keyword \in PaymentKeywords : includes(lower(prompt), keyword)
containsCallKeywords(prompt) ==
    \E keyword \in CallKeywords : includes(lower(prompt), keyword)

null == <<>>
Or(value, default) == IF value = null THEN default ELSE value

\* part_001 293-296: /\$(\d+)/, the whole match
extractAmount(prompt) ==
    LET starts == {i \in DOMAIN prompt :
                       /\ prompt[i] = "$" /\ i < Len(prompt)
                       /\ prompt[i + 1] \in Digits} IN
    IF starts = {} THEN null
    ELSE SubSeq(prompt, Least(starts),
                RunEnd(prompt, Least(starts) + 1, Digits))

\* [A-Z][a-z]+ matches at i; where it ends.
IsName(text, i) ==
    /\ i < Len(text) /\ text[i] \in UpperCase /\ text[i + 1] \in LowerCase
NameEnd(text, i) == RunEnd(text, i + 1, LowerCase)

\* /(?:to|send|pay|call)\s+([A-Z][a-z]+)/ matches at i, after the word w
Verbs == {<<"t", "o">>, <<"s", "e", "n", "d">>, <<"p", "a", "y">>, <<"c", "a", "l", "l">>}
AfterVerb(text, i, w) ==
    /\ At(text, i, w)
    /\ RunEnd(text, i + Len(w), Space) >= i + Len(w)
    /\ IsName(text, RunEnd(text, i + Len(w), Space) + 1)

\* /([A-Z][a-z]+)(?:\s+via|\s+and)/ matches at i
BeforeLink(text, i) ==
    /\ IsName(text, i)
    /\ RunEnd(text, NameEnd(text, i) + 1, Space) > NameEnd(text, i)
    /\ \E w \in {<<"v", "i", "a">>, <<"a", "n", "d">>} :
           At(text, RunEnd(text, NameEnd(text, i) + 1, Space) + 1, w)

\* part_001 298-311: the first pattern that matches gives its group.
extractRecipient(prompt) ==
    LET first == {i \in DOMAIN prompt :
                      \E w \in Verbs : AfterVerb(prompt, i, w)}
        second == {i \in DOMAIN prompt : BeforeLink(prompt, i)} IN
    IF first # {}
    THEN LET i == Least(first)
             w == CHOOSE v \in Verbs : AfterVerb(prompt, i, v)
             n == RunEnd(prompt, i + Len(w), Space) + 1 IN
         SubSeq(prompt, n, NameEnd(prompt, n))
    ELSE IF second # {}
    THEN SubSeq(prompt, Least(second), NameEnd(prompt, Least(second)))
    ELSE null

Dinner == <<"d", "i", "n", "n", "e", "r">>
Lunch == <<"l", "u", "n", "c", "h">>
Meeting == <<"m", "e", "e", "t", "i", "n", "g">>
Plans == <<"p", "l", "a", "n", "s">>
John == <<"J", "o", "h", "n">>
FiftyDollars == <<"$", "5", "0">>

\* part_001 272-291
extractSubtasks(prompt, needsPayment, needsCall) ==
    LET amount == extractAmount(prompt)
        recipient == extractRecipient(prompt) IN
    (IF needsPayment
     THEN << <<"Venmo payment ">>
             \o (IF amount # null THEN <<"of ">> \o amount ELSE <<>>)
             \o <<" ">>
             \o (IF recipient # null THEN <<"to ">> \o recipient
                 ELSE <<>>) >>
     ELSE <<>>)
    \o (IF needsCall
        THEN << <<"Phone call ">>
                \o (IF recipient # null THEN <<"to ">> \o recipient
                    ELSE <<>>)
                \o <<" for confirmation">> >>
        ELSE <<>>)
    \o (IF includes(lower(prompt), Dinner) \/ includes(lower(prompt), Plans)
        THEN << <<"Discuss future plans">> >>
        ELSE <<>>)

\* subtasks.map((task, i) => `${i + 1}. ${task}`).join('\n')
Numerals == <<"1", "2", "3">>
RECURSIVE Numbered(_, _)
Numbered(subtasks, i) ==
    IF i > Len(subtasks) THEN <<>>
    ELSE (IF i > 1 THEN <<"\n">> ELSE <<>>)
         \o <<Numerals[i], ". ">> \o subtasks[i]
         \o Numbered(subtasks, i + 1)

Step(agent, messageType, message) ==
    [agent |-> agent, message |-> {message}, messageType |-> messageType]

\* part_001 313-349.  The digits Math.random gives are one piece, the same
\* in every flow.
generateVenmoFlow(prompt) ==
    LET amount == Or(extractAmount(prompt), FiftyDollars)
        recipient == Or(extractRecipient(prompt), John) IN
    << Step("supervisor", "delegation",
            <<"Delegating payment task to Venmo Agent...">>),
       Step("venmo", "acknowledgment",
            <<"Received payment request: ">> \o amount \o <<" to ">>
            \o recipient),
       Step("venmo", "processing",
            <<"Searching for contact \"">> \o recipient
            \o <<"\" in Venmo contacts...">>),
       Step("venmo", "success",
            <<"Contact found: ">> \o recipient \o <<" Smith (@">>
            \o lower(recipient) \o <<"smith_venmo)">>),
       Step("venmo", "action",
            <<"Initiating payment of ">> \o amount
            \o <<" with note: \"Payment as requested\"">>),
       Step("venmo", "success",
            <<"Payment successful! Transaction ID: VM_", "digits">>) >>

\* part_001 394-404
generateCallOutcome(prompt) ==
    IF includes(lower(prompt), Dinner)
    THEN <<"Plans confirmed for dinner this Friday at 7 PM.">>
    ELSE IF includes(lower(prompt), Lunch)
    THEN <<"Lunch plans confirmed for tomorrow at noon.">>
    ELSE IF includes(lower(prompt), Meeting)
    THEN <<"Meeting scheduled for next week.">>
    ELSE <<"Plans discussed and confirmed.">>

\* part_001 351-392
generatePhoneFlow(prompt) ==
    LET recipient == Or(extractRecipient(prompt), John) IN
    << Step("phone", "acknowledgment",
            <<"Received call request for ">> \o recipient
            \o <<" to confirm payment and discuss plans">>),
       Step("phone", "processing",
            <<"Looking up contact information for ">> \o recipient
            \o <<"...">>),
       Step("phone", "success",
            <<"Found contact: ">> \o recipient
            \o <<" Smith - (555) ", "digits", "-", "digits">>),
       Step("phone", "action",
            <<"Initiating call to ">> \o recipient \o <<"...">>),
       Step("phone", "progress",
            <<"Call connected. Confirming Venmo payment...">>),
       Step("phone", "progress",
            recipient \o <<" confirmed payment received. ">>
            \o (IF includes(lower(prompt), Dinner)
                THEN <<"Discussing Friday dinner plans...">>
                ELSE <<"Discussing plans...">>)),
       Step("phone", "success",
            <<"Call completed. ">> \o generateCallOutcome(prompt)) >>

SummaryHeader == <<"All tasks completed successfully!\n\nSummary:\n">>

\* part_001 406-429
generateFinalSummary(prompt, needsPayment, needsCall) ==
    LET amount == Or(extractAmount(prompt), FiftyDollars)
        recipient == Or(extractRecipient(prompt), John) IN
    SummaryHeader
    \o (IF needsPayment
        THEN <<"* ">> \o amount \o <<" sent to ">> \o recipient
             \o <<" via Venmo [ok]\n">>
        ELSE <<>>)
    \o (IF needsCall THEN <<"* Confirmation call completed [ok]\n">>
        ELSE <<>>)
    \o (IF includes(lower(prompt), Dinner)
        THEN <<"* Dinner plans confirmed for Friday 7 PM [ok]">>
        ELSE IF includes(lower(prompt), Lunch)
        THEN <<"* Lunch plans confirmed [ok]">>
        ELSE IF needsCall THEN <<"* Plans discussed and confirmed [ok]">>
        ELSE <<>>)

\* Mutant of generateConversationFlow: the coordination step is pushed
\* whenever a call is needed.
M_generateConversationFlowCoordinates(prompt) ==
    LET needsPayment == containsPaymentKeywords(prompt)
        needsCall == containsCallKeywords(prompt)
        subtasks == extractSubtasks(prompt, needsPayment, needsCall) IN
    << Step("supervisor", "analysis",
            <<"Analyzing task: \"">> \o prompt \o <<"\"">>),
       Step("supervisor", "planning",
            <<"Breaking down into subtasks:\n">>
            \o Numbered(subtasks, 1)) >>
    \o (IF needsPayment THEN generateVenmoFlow(prompt) ELSE <<>>)
    \o (IF needsCall
        THEN <<Step("supervisor", "coordination",
                    <<"Payment completed successfully. ",
                      "Now delegating call task to Phone Agent...">>)>>
        ELSE <<>>)
    \o (IF needsCall THEN generatePhoneFlow(prompt) ELSE <<>>)
    \o <<Step("supervisor", "completion",
              generateFinalSummary(prompt, needsPayment, needsCall))>>

\* part_001 211-260
generateConversationFlow(prompt) ==
    LET needsPayment == containsPaymentKeywords(prompt)
        needsCall == containsCallKeywords(prompt)
        subtasks == extractSubtasks(prompt, needsPayment, needsCall) IN
    << Step("supervisor", "analysis",
            <<"Analyzing task: \"">> \o prompt \o <<"\"">>),
       Step("supervisor", "planning",
            <<"Breaking down into subtasks:\n">>
            \o Numbered(subtasks, 1)) >>
    \o (IF needsPayment THEN generateVenmoFlow(prompt) ELSE <<>>)
    \o (IF needsPayment /\ needsCall
        THEN <<Step("supervisor", "coordination",
                    <<"Payment completed successfully. ",
                      "Now delegating call task to Phone Agent...">>)>>
        ELSE <<>>)
    \o (IF needsCall THEN generatePhoneFlow(prompt) ELSE <<>>)
    \o <<Step("supervisor", "completion",
              generateFinalSummary(prompt, needsPayment, needsCall))>>

\* part_002 67-105: for..of needs an iterable; Object.entries of a
\* non-object is empty and destructuring its first entry throws;
\* getMessageType lower-cases the value of the three agent keys.
Iterable(body) == body.json \in {"array", "string"}
ExtItemThrows(item) ==
    \/ item.shape = "scalar"
    \/ ~item.str /\ item.key \in {"Supervisor", "phone_agent", "venmo_agent"}

\* part_002 107-123, on the marker phrases of the model
getMessageType(message) ==
    IF "Let's go to" \in message \/ "delegating" \in message THEN "delegation"
    ELSE IF "Transaction ID" \in message \/ "sent successfully" \in message
    THEN "success"
    ELSE "processing"

\* part_002 70-101
ExtStep(item) ==
    CASE item.key = "User" ->
            [agent |-> "user", message |-> item.val, messageType |-> "input"]
      [] item.key = "Supervisor" ->
            [agent |-> "supervisor", message |-> item.val,
             messageType |-> getMessageType(item.val)]
      [] item.key = "phone_agent" ->
            [agent |-> "phone", message |-> item.val,
             messageType |-> getMessageType(item.val)]
      [] item.key = "venmo_agent" ->
            [agent |-> "venmo", message |-> item.val,
             messageType |-> getMessageType(item.val)]
      [] OTHER ->
            [agent |-> toLowerCase(item.key), message |-> item.val,
             messageType |-> "processing"]

parseAPIResponse(items) == [k \in DOMAIN items |-> ExtStep(items[k])]

ServiceKind == IF variant = "inline" THEN "external" ELSE "agent"

ServiceKinds == {"external", "agent"}

\* part_001 444, part_002 138: the message count taken for a full run.
ExpectedSteps(kind) == IF kind = "external" THEN 8 ELSE 17

\* Mutant of Estimate: the estimate is not capped.
M_EstimateUncapped(count, expected) == Frac(count * 100, expected)

\* part_001 444, part_002 138: the estimate while processing.
Estimate(count, expected) ==
    FracMin(Frac(count * 100, expected), Frac(95, 1))

\* part_001 439-445, part_002 133-139: progress from the task's status and
\* the number of its messages.
ProgressOf(status, count) ==
    IF status = "completed" THEN Frac(100, 1)
    ELSE IF status = "processing"
    THEN Estimate(count, ExpectedSteps(ServiceKind))
    ELSE Frac(0, 1)

\* part_001 431-481, part_002 125-175: null for an unknown task, else the
\* snapshot computed from the task's status and its messages.
getTaskProgress(T, M, taskId) ==
    LET ms == getTaskMessages(M, taskId)
        latestMessage == IF ms = <<>> THEN "undefined" ELSE ms[Len(ms)]
        status == IF taskId \in DOMAIN T THEN T[taskId].status ELSE "" IN
    [found |-> taskId \in DOMAIN T,
     taskId |-> taskId,
     progress |-> ProgressOf(status, Len(ms)),
     status |-> status,
     agentStatus |-> [a \in Agents |->
                        IF status = "completed" THEN "complete"
                        ELSE IF ms # <<>> /\ latestMessage.agent = a
                        THEN "active" ELSE "idle"],
     cur |-> IF ms = <<>> THEN 0 ELSE latestMessage.id]

\* Mutant of AlreadyProcessing: no guard.
M_NoGuard(taskId) == FALSE

\* part_001 174-179, part_002 7-12: the guard.
AlreadyProcessing(taskId) == activeProcessing[taskId]

Rejected(kind, route, taskId) ==
    Finish(NewRun(kind, route, taskId, "done"), "rejected", "already")

\* The run processTask starts once the guard has let it in.
Started(kind, route, taskId, prompt) ==
    IF kind = "agent"
    THEN [NewRun(kind, route, taskId, "sleep") EXCEPT
              !.flow = [outcome |-> "local", json |-> "array",
                        items |-> generateConversationFlow(prompt)],
              !.poller = route]
    ELSE NewRun(kind, route, taskId, "fetch")

\* POST /api/tasks with the polling routes: part_001 57-65, 121-145 and
\* 174-191.  A rejected processTask leaves the interval of line 127 running.
SubmitPolling(prompt) ==
    LET task == createTask(prompt)
        t == currentTaskId
        r == Len(runs) + 1
        T1 == (t :> task) @@ tasks IN
    /\ variant = "polling"
    /\ currentTaskId <= MaxTasks /\ Len(runs) < MaxRuns
    /\ currentTaskId' = currentTaskId + 1
    /\ responses' = (t :> task) @@ responses
    /\ IF AlreadyProcessing(t)
       THEN /\ tasks' = T1
            /\ events' = broadcast(events, "taskError", ErrorData(t), r)
            /\ runs' = Append(runs, [Rejected("agent", TRUE, t) EXCEPT
                                         !.poller = TRUE])
            /\ UNCHANGED activeProcessing
       ELSE /\ tasks' = updateTaskStatus(T1, t, "processing", "null")
            /\ activeProcessing' = [activeProcessing EXCEPT ![t] = TRUE]
            /\ runs' = Append(runs, Started("agent", TRUE, t, prompt))
            /\ UNCHANGED events
    /\ UNCHANGED <<hub, gen, variant, messages, currentMessageId, now>>

\* A direct call of the service's processTask: part_001 174-191,
\* part_002 7-18.  The id is that of a stored task or the next id the store
\* will assign, which the store does not know yet.
CallProcessTask(t, prompt) ==
    /\ Len(runs) < MaxRuns
    /\ Cardinality({r \in DOMAIN runs : ~runs[r].route}) < MaxCalls
    /\ t <= currentTaskId
    /\ IF AlreadyProcessing(t)
       THEN /\ runs' = Append(runs, Rejected(ServiceKind, FALSE, t))
            /\ UNCHANGED <<tasks, activeProcessing>>
       ELSE /\ tasks' = updateTaskStatus(tasks, t, "processing", "null")
            /\ activeProcessing' = [activeProcessing EXCEPT ![t] = TRUE]
            /\ runs' = Append(runs, Started(ServiceKind, FALSE, t, prompt))
    /\ UNCHANGED <<hub, gen, variant, currentTaskId, messages,
                   currentMessageId, now, events,
                   responses>>

\* Mutant of ServiceComplete: the wrapper does not clear its interval.
M_ServiceCompleteKeepsPoller(r, i, body, M) ==
    LET t == runs[r].taskId
        T1 == updateTaskStatus(tasks, t, "completed", "date")
        finalProgress == getTaskProgress(T1, M, t) IN
    /\ tasks' = T1
    /\ activeProcessing' = [activeProcessing EXCEPT ![t] = FALSE]
    /\ runs' = [runs EXCEPT ![r] = [Finish(@, "completed", "") EXCEPT
                                        !.flow = body, !.i = i]]
    /\ events' = IF runs[r].route /\ finalProgress.found
                 THEN broadcast(events, "taskCompleted", finalProgress, r)
                 ELSE events

\* part_001 202-208 and 145-155, part_002 37-44: the run ends completed;
\* the polling wrapper then clears its interval and sends the final update.
ServiceComplete(r, i, body, M) ==
    LET t == runs[r].taskId
        T1 == updateTaskStatus(tasks, t, "completed", "date")
        finalProgress == getTaskProgress(T1, M, t) IN
    /\ tasks' = T1
    /\ activeProcessing' = [activeProcessing EXCEPT ![t] = FALSE]
    /\ runs' = [runs EXCEPT ![r] = [Finish(@, "completed", "") EXCEPT
                                        !.flow = body, !.i = i,
                                        !.poller = FALSE]]
    /\ events' = IF runs[r].route /\ finalProgress.found
                 THEN broadcast(events, "taskCompleted", finalProgress, r)
                 ELSE events

\* Mutant of ServiceCatch: there is no finally, the marker stays set.
M_ServiceCatchKeepsMarker(r, body, error) ==
    LET t == runs[r].taskId IN
    /\ tasks' = updateTaskStatus(tasks, t, "failed", "null")
    /\ runs' = [runs EXCEPT ![r] = Finish(@, "failed", error)]
    /\ UNCHANGED <<hub, gen, variant, currentTaskId, messages,
                   currentMessageId, now, events, responses,
                   activeProcessing>>

\* part_002 38-44: the run ends failed and the error goes to the caller.
ServiceCatch(r, body, error) ==
    LET t == runs[r].taskId IN
    /\ tasks' = updateTaskStatus(tasks, t, "failed", "null")
    /\ activeProcessing' = [activeProcessing EXCEPT ![t] = FALSE]
    /\ runs' = [runs EXCEPT ![r] = Finish(@, "failed", error)]
    /\ UNCHANGED <<hub, gen, variant, currentTaskId, messages,
                   currentMessageId, now, events,
                   responses>>

\* part_001 187-208, part_002 22-44: the pacing delay is over; write the
\* step, then sleep again or finish.
TimerService(r) ==
    LET t == runs[r].taskId
        i == runs[r].i
        M1 == createMessage(messages, currentMessageId, t,
                            runs[r].flow.items[i + 1], r) IN
    /\ runs[r].kind \in {"agent", "external"} /\ runs[r].pc = "sleep"
    /\ messages' = M1
    /\ currentMessageId' = currentMessageId + 1
    /\ now' = now + 1
    /\ IF i + 1 < Len(runs[r].flow.items)
       THEN /\ runs' = [runs EXCEPT ![r].i = i + 1]
            /\ UNCHANGED <<tasks, activeProcessing, events>>
       ELSE ServiceComplete(r, i + 1, runs[r].flow, M1)
    /\ UNCHANGED <<hub, gen, variant, currentTaskId, responses>>

\* The ticks all pollers have had.
RECURSIVE SumTicks(_)
SumTicks(rs) == IF rs = <<>> THEN 0 ELSE Head(rs).ticks + SumTicks(Tail(rs))
Ticks == SumTicks(runs)

\* Mutant of PollTick: the tick never clears its own interval.
M_PollTickNeverClears(r) ==
    LET t == runs[r].taskId
        progress == getTaskProgress(tasks, messages, t) IN
    /\ runs[r].poller /\ Ticks < MaxTicks
    /\ events' = IF progress.found
                 THEN broadcast(events, "taskProgress", progress, r)
                 ELSE events
    /\ runs' = [runs EXCEPT ![r].ticks = @ + 1]
    /\ UNCHANGED <<hub, gen, variant, tasks, currentTaskId, messages,
                   currentMessageId, now,
                   activeProcessing, responses>>

\* part_001 127-143: one tick of the progress poller.  The ticks that leave
\* the interval running are counted up to MaxTicks; the tick that clears it
\* is the interval's last and needs no bound.
PollTick(r) ==
    LET t == runs[r].taskId
        progress == getTaskProgress(tasks, messages, t)
        clears == progress.found /\ progress.status \in Terminal IN
    /\ runs[r].poller /\ (Ticks < MaxTicks \/ clears)
    /\ events' = IF progress.found
                 THEN broadcast(events, "taskProgress", progress, r)
                 ELSE events
    /\ runs' = [runs EXCEPT ![r].ticks = @ + 1, ![r].poller = ~clears]
    /\ UNCHANGED <<hub, gen, variant, tasks, currentTaskId, messages,
                   currentMessageId, now,
                   activeProcessing, responses>>

\* part_002 18-26 and 47-65: the oracle's reply has arrived and is parsed
\* and normalised.
ExtFetchReply(r, reply) ==
    LET body == reply IN
    /\ runs[r].kind = "external" /\ runs[r].pc = "fetch"
    /\ IF reply.outcome # "ok"
       THEN ServiceCatch(r, body, IF reply.outcome = "httpError" THEN "http"
                                  ELSE "network")
       ELSE IF body.json = "unparseable" THEN ServiceCatch(r, body, "parse")
       ELSE IF ~Iterable(body) THEN ServiceCatch(r, body, "shape")
       ELSE IF \E k \in DOMAIN body.items : ExtItemThrows(body.items[k])
       THEN ServiceCatch(r, body, "step")
       ELSE IF body.items = <<>>
       THEN /\ ServiceComplete(r, 0, body, messages)
            /\ UNCHANGED <<hub, gen, variant, currentTaskId, messages,
                           currentMessageId, now,
                           responses>>
       ELSE /\ runs' = [runs EXCEPT ![r] = [@ EXCEPT
                            !.pc = "sleep",
                            !.flow = [body EXCEPT !.items =
                                         parseAPIResponse(body.items)]]]
            /\ UNCHANGED <<hub, gen, variant, tasks, currentTaskId, messages,
                           currentMessageId, now, activeProcessing, events,
                           responses>>

----------------------------------------------------------------------------
(* The store on its own: MemStorage driven through its interface. *)

StoreSteps == {Step("supervisor", "analysis", "Analyzing task")}
StoreStatuses == {"completed"}

\* part_003 28-39
\* Mutant of StoreCreateTask: the counter is read and not advanced.
M_StoreCreateTaskSameId(prompt) ==
    /\ currentTaskId <= MaxTasks
    /\ tasks' = (currentTaskId :> createTask(prompt)) @@ tasks
    /\ tasks' # tasks
    /\ UNCHANGED <<hub, gen, variant, currentTaskId, messages,
                   currentMessageId, now, activeProcessing, runs, events,
                   responses>>

StoreCreateTask(prompt) ==
    /\ currentTaskId <= MaxTasks
    /\ tasks' = (currentTaskId :> createTask(prompt)) @@ tasks
    /\ currentTaskId' = currentTaskId + 1
    /\ UNCHANGED <<hub, gen, variant, messages, currentMessageId, now,
                   activeProcessing, runs, events, responses>>

\* part_003 45-53
StoreUpdateTaskStatus(id, status) ==
    /\ tasks' = updateTaskStatus(tasks, id, status,
                                 IF status = "completed" THEN "date"
                                 ELSE "null")
    /\ tasks' # tasks
    /\ UNCHANGED <<hub, gen, variant, currentTaskId, messages, currentMessageId, now,
                   activeProcessing, runs, events, responses>>

\* What updateTaskStatus gave back: the updated task, or undefined.
NoCall == [called |-> FALSE, found |-> FALSE, id |-> 0, status |-> "",
           completedAt |-> "null"]
Returned(T, id) ==
    IF id \in DOMAIN T
    THEN [called |-> TRUE, found |-> TRUE, id |-> T[id].id,
          status |-> T[id].status, completedAt |-> T[id].completedAt]
    ELSE [NoCall EXCEPT !.called = TRUE]

\* part_003 45-53, called with any status and with or without a date
CallUpdateTaskStatus(id, status, completedAt) ==
    /\ tasks' = updateTaskStatus(tasks, id, status, completedAt)
    /\ returned' = Returned(tasks', id)
    /\ UNCHANGED <<hub, genPrompt, genFlow, apiResponse, parsedFlow, home,
                   variant, currentTaskId, messages, currentMessageId, now,
                   activeProcessing, runs, events, responses>>

\* part_003 55-64: the task id is not looked up.
StoreCreateMessage(taskId, step) ==
    /\ Len(messages) < MaxMessages
    /\ messages' = createMessage(messages, currentMessageId, taskId, step, 0)
    /\ currentMessageId' = currentMessageId + 1
    /\ UNCHANGED <<hub, gen, variant, tasks, currentTaskId, now, activeProcessing,
                   runs, events, responses>>

\* Time passes between two calls; the clock does not step back.
ClockTick ==
    /\ now < MaxClock
    /\ now' = now + 1
    /\ UNCHANGED <<hub, gen, variant, tasks, currentTaskId, messages,
                   currentMessageId, activeProcessing, runs, events,
                   responses>>

----------------------------------------------------------------------------
(* The broadcast hub: routes.ts 17-54, the same lines in part_001.  A
   socket whose transport has failed keeps reading OPEN until its close is
   noticed and throws on every send from then on. *)

\* Math.random().toString(36).substring(7): two connections can draw the
\* same id.
ClientIds == {"a", "b"}

\* readyState === 1
OPEN == 1

\* ws.on('connection'), the connection object before any send
Socket(clientId, broken) ==
    [clientId |-> clientId, readyState |-> OPEN, broken |-> broken,
     received |-> <<>>]

\* {type: 'connected', clientId}
M_connectedAnonymous(clientId) ==
    [n |-> 0, type |-> "connected", clientId |-> "", taskId |-> 0]

connected(clientId) ==
    [n |-> 0, type |-> "connected", clientId |-> clientId, taskId |-> 0]

\* What the processors hand to broadcast.
HubData == {[type |-> "taskProgress", taskId |-> t] : t \in TaskIds}

\* JSON.stringify(data), numbered by the call that made it
Message(data, n) ==
    [n |-> n, type |-> data.type, clientId |-> "", taskId |-> data.taskId]

\* clients.set(clientId, ws): a key already present keeps its place.
set(C, clientId, ws) ==
    IF \E k \in DOMAIN C : C[k].clientId = clientId
    THEN [k \in DOMAIN C |-> IF C[k].clientId = clientId
                             THEN [C[k] EXCEPT !.ws = ws] ELSE C[k]]
    ELSE Append(C, [clientId |-> clientId, ws |-> ws])

\* clients.delete(clientId)
delete(C, clientId) == SelectSeq(C, LAMBDA e : e.clientId # clientId)

Registered(C) == {C[k].ws : k \in DOMAIN C}

\* ws.send(message)
M_sendTwice(S, ws, message) ==
    IF S[ws].broken THEN [threw |-> TRUE, sockets |-> S]
    ELSE [threw |-> FALSE,
          sockets |-> [S EXCEPT ![ws].received =
                           @ \o <<message, message>>]]

send(S, ws, message) ==
    IF S[ws].broken THEN [threw |-> TRUE, sockets |-> S]
    ELSE [threw |-> FALSE,
          sockets |-> [S EXCEPT ![ws].received = Append(@, message)]]

\* What became of one entry of the registry, kept for the log.
Visit(acc, e, outcome) ==
    Append(acc.visited,
           [clientId |-> e.clientId, ws |-> e.ws, outcome |-> outcome])

\* 42-52 without the try: the error of send leaves the callback.
M_CallbackNoCatch(acc, e, message) ==
    LET sent == send(acc.sockets, e.ws, message) IN
    IF acc.sockets[e.ws].readyState = OPEN
    THEN IF sent.threw
         THEN [acc EXCEPT !.threw = TRUE,
                          !.visited = Visit(acc, e, "threw")]
         ELSE [acc EXCEPT !.sockets = sent.sockets,
                          !.visited = Visit(acc, e, "sent")]
    ELSE [acc EXCEPT !.clients = delete(acc.clients, e.clientId),
                     !.visited = Visit(acc, e, "closed")]

\* 42-52: the callback of clients.forEach
Callback(acc, e, message) ==
    LET sent == send(acc.sockets, e.ws, message) IN
    IF acc.sockets[e.ws].readyState = OPEN
    THEN IF sent.threw
         THEN [acc EXCEPT !.clients = delete(acc.clients, e.clientId),
                          !.visited = Visit(acc, e, "threw")]
         ELSE [acc EXCEPT !.sockets = sent.sockets,
                          !.visited = Visit(acc, e, "sent")]
    ELSE [acc EXCEPT !.clients = delete(acc.clients, e.clientId),
                     !.visited = Visit(acc, e, "closed")]

\* clients.forEach over the entries present at the call, in insertion
\* order; an error leaving the callback ends the loop.
RECURSIVE M_ForEachReadsFirst(_, _, _, _)
M_ForEachReadsFirst(entries, k, acc, message) ==
    IF entries = <<>> THEN [acc EXCEPT !.threw = TRUE]
    ELSE IF k > Len(entries) \/ acc.threw THEN acc
    ELSE M_ForEachReadsFirst(entries, k + 1,
                             Callback(acc, entries[k], message), message)

RECURSIVE ForEach(_, _, _, _)
ForEach(entries, k, acc, message) ==
    IF k > Len(entries) \/ acc.threw THEN acc
    ELSE ForEach(entries, k + 1, Callback(acc, entries[k], message),
                 message)

\* 19-37: a connection arrives; its handshake send may already throw.
OnConnection(clientId, broken) ==
    LET ws == Len(sockets) + 1
        S1 == Append(sockets, Socket(clientId, broken)) IN
    /\ Len(sockets) < MaxConns
    /\ clients' = set(clients, clientId, ws)
    /\ sockets' = send(S1, ws, connected(clientId)).sockets
    /\ UNCHANGED <<gen, variant, tasks, currentTaskId, messages,
                   currentMessageId, now, activeProcessing, runs, events,
                   responses, hubLog>>

\* The transport of an open socket fails.
SocketBreaks(ws) ==
    /\ sockets[ws].readyState = OPEN /\ ~sockets[ws].broken
    /\ sockets' = [sockets EXCEPT ![ws].broken = TRUE]
    /\ UNCHANGED <<gen, variant, tasks, currentTaskId, messages,
                   currentMessageId, now, activeProcessing, runs, events,
                   responses, clients, hubLog>>

\* The socket starts closing, by either side.
SocketCloses(ws) ==
    /\ sockets[ws].readyState = OPEN
    /\ sockets' = [sockets EXCEPT ![ws].readyState = 3]
    /\ UNCHANGED <<gen, variant, tasks, currentTaskId, messages,
                   currentMessageId, now, activeProcessing, runs, events,
                   responses, clients, hubLog>>

\* 23-26: ws.on('error').  The steps in which the handler finds nothing
\* under its id change nothing and are left out, here and in OnClose.
OnError(ws) ==
    /\ sockets[ws].broken
    /\ clients' = delete(clients, sockets[ws].clientId)
    /\ clients' # clients
    /\ UNCHANGED <<gen, variant, tasks, currentTaskId, messages,
                   currentMessageId, now, activeProcessing, runs, events,
                   responses, sockets, hubLog>>

\* 28-30: ws.on('close')
OnClose(ws) ==
    /\ sockets[ws].readyState # OPEN
    /\ clients' = delete(clients, sockets[ws].clientId)
    /\ clients' # clients
    /\ UNCHANGED <<gen, variant, tasks, currentTaskId, messages,
                   currentMessageId, now, activeProcessing, runs, events,
                   responses, sockets, hubLog>>

\* 40-54: broadcast(data)
HubBroadcast(data) ==
    LET n == Len(hubLog) + 1
        done == ForEach(clients, 1,
                        [clients |-> clients, sockets |-> sockets,
                         visited |-> <<>>, threw |-> FALSE],
                        Message(data, n)) IN
    /\ Len(hubLog) < MaxBroadcasts
    /\ clients' = done.clients
    /\ sockets' = done.sockets
    /\ hubLog' = Append(hubLog, [data |-> data, visited |-> done.visited,
                                 threw |-> done.threw])
    /\ UNCHANGED <<gen, variant, tasks, currentTaskId, messages,
                   currentMessageId, now, activeProcessing, runs, events,
                   responses>>

----------------------------------------------------------------------------
(* The local generator on its own: part_001 211-429. *)

Words == {<<"S", "e", "n", "d">>,
          <<"s", "e", "n", "d">>,
          <<"A", "l", "e", "x">>,
          <<"$", "3", "2", ".", "5", "0">>,
          <<"c", "a", "l", "l">>,
          <<"d", "i", "n", "n", "e", "r">>,
          <<"a", "n", "d">>,
          <<"t", "a", "s", "k">>,
          <<"b", "o", "o", "k">>}

RECURSIVE Join(_)
Join(ws) ==
    IF Len(ws) = 1 THEN ws[1] ELSE ws[1] \o <<" ">> \o Join(Tail(ws))

\* The prompts of one to MaxWords words, a blank between two.
GenPrompts == {Join(ws) : ws \in SeqUpTo(Words, MaxWords) \ {<<>>}}

\* part_001 183-184: processTask has the flow made.
Generate ==
    /\ genFlow = <<>> /\ genPrompt # <<>>
    /\ genFlow' = generateConversationFlow(genPrompt)
    /\ UNCHANGED <<hub, genPrompt, apiResponse, parsedFlow, returned, home,
                   variant, tasks,
                   currentTaskId, messages, currentMessageId, now,
                   activeProcessing, runs, events, responses>>

----------------------------------------------------------------------------
(* The two parsers of the oracle's array on their own: routes.ts 173-192
   and part_002 67-105. *)

Keys == {"User", "Supervisor", "phone_agent", "venmo_agent", "supervisor",
         "Phone_Agent", "email_agent"}
ApiResponses ==
    SeqUpTo({Obj(key, {"sent successfully"}) : key \in Keys}, MaxSteps)
    \ {<<>>}

NotParsed == [by |-> "", flow |-> <<>>]

\* routes.ts 173-192, for every item of the array
ParseInline ==
    /\ parsedFlow = NotParsed
    /\ parsedFlow' = [by |-> "routes",
                      flow |-> [k \in DOMAIN apiResponse |->
                                   InlineStep(apiResponse[k])]]
    /\ UNCHANGED <<hub, genPrompt, genFlow, apiResponse, returned, home,
                   variant, tasks,
                   currentTaskId, messages, currentMessageId, now,
                   activeProcessing, runs, events, responses>>

\* part_002 25-26: processTask has the reply parsed.
ParseService ==
    /\ parsedFlow = NotParsed
    /\ parsedFlow' = [by |-> "service",
                      flow |-> parseAPIResponse(apiResponse)]
    /\ UNCHANGED <<hub, genPrompt, genFlow, apiResponse, returned, home,
                   variant, tasks,
                   currentTaskId, messages, currentMessageId, now,
                   activeProcessing, runs, events, responses>>

----------------------------------------------------------------------------
(* The page: src/client/src/pages/home.tsx.  The page sees the server      *)
(* through the answer to its POST and through the events the hub sends to  *)
(* its socket while the socket is open.                                    *)

\* home.tsx 43-45: connect() makes a new WebSocket; a reconnect timer that
\* called it has fired.
connect(h) ==
    [h EXCEPT !.ws = "connecting", !.opened = @ + 1,
              !.reconnectTimeout = FALSE]

\* home.tsx 21-33 and 36-104: the state after the first render and its
\* effect.  cursor[t] counts the events of task t that are behind the
\* socket: handled by onmessage, or broadcast while it was not open;
\* lost[t] tells that a terminal event of t is among the latter.
Mounted ==
    connect([mounted |-> TRUE, ws |-> "none", opened |-> 0,
             reconnectTimeout |-> FALSE, isProcessing |-> FALSE,
             request |-> 0, currentTask |-> 0,
             cursor |-> [t \in TaskIds |-> 0],
             lost |-> [t \in TaskIds |-> FALSE]])

HomeStep(h) ==
    /\ home' = h
    /\ UNCHANGED <<hub, genPrompt, genFlow, apiResponse, parsedFlow,
                   returned, variant, tasks, currentTaskId, messages,
                   currentMessageId, now, activeProcessing, runs, events,
                   responses>>

\* routes.ts 19-24 and 40-54, home.tsx 47-49: the hub has accepted the
\* socket; it is sent the broadcasts made from now on and none of those
\* made before.
HomeOnOpen ==
    /\ home.ws = "connecting"
    /\ HomeStep([home EXCEPT
           !.ws = "open",
           !.cursor = [t \in TaskIds |-> Len(events[t])],
           !.lost = [t \in TaskIds |->
                        \/ @[t]
                        \/ \E k \in home.cursor[t] + 1 .. Len(events[t]) :
                              events[t][k].type
                                  \in {"taskCompleted", "taskError"}]])

\* home.tsx 60-103: ws.onmessage on the next event of task t.
HomeOnMessage(t) ==
    /\ home.ws = "open" /\ home.cursor[t] < Len(events[t])
    /\ LET data == events[t][home.cursor[t] + 1] IN
       HomeStep([home EXCEPT
           !.cursor[t] = @ + 1,
           !.isProcessing = IF data.type \in {"taskCompleted", "taskError"}
                            THEN FALSE ELSE @])

\* The socket has all it was sent behind it.
Drained == \A t \in TaskIds : home.cursor[t] = Len(events[t])

\* home.tsx 55-58: ws.onclose.  The socket closes because the connection
\* failed or dropped (here once what was sent to it has been handled), or
\* because close() was called on it.
HomeOnClose ==
    /\ \/ home.ws = "connecting"
       \/ home.ws = "open" /\ Drained
       \/ home.ws = "closing"
    /\ HomeStep([home EXCEPT !.ws = "closed", !.reconnectTimeout = TRUE])

\* home.tsx 57: the timer set by onclose fires and calls connect.
HomeReconnect ==
    /\ home.reconnectTimeout /\ home.opened < MaxOpens
    /\ HomeStep(connect(home))

\* home.tsx 107-114: the effect's cleanup, run when the page is unmounted.
HomeCleanup ==
    /\ home.mounted
    /\ HomeStep([home EXCEPT
           !.mounted = FALSE,
           !.reconnectTimeout = FALSE,
           !.ws = IF @ \in {"connecting", "open"} THEN "closing" ELSE @])

\* home.tsx 125-129 and 144-147: handleProcessTask sends the POST; the
\* store gives the task it makes for it the next id or a later one.  One
\* request is in flight at a time.
HomeProcessTask ==
    /\ home.mounted /\ ~home.isProcessing
    /\ home.request = 0 /\ currentTaskId <= MaxTasks
    /\ HomeStep([home EXCEPT !.request = currentTaskId])

\* home.tsx 130-141: onSuccess with the task the POST was answered with.
HomeOnSuccess(t) ==
    /\ home.mounted /\ home.request # 0
    /\ t \in DOMAIN responses /\ t >= home.request
    /\ HomeStep([home EXCEPT !.request = 0, !.currentTask = t,
                             !.isProcessing = TRUE])

----------------------------------------------------------------------------
Init ==
    /\ variant \in Variants
    /\ tasks = <<>>
    /\ currentTaskId = 1
    /\ messages = <<>>
    /\ currentMessageId = 1
    /\ now = 0
    /\ activeProcessing = [t \in TaskIds |-> FALSE]
    /\ runs = <<>>
    /\ events = [t \in TaskIds |-> <<>>]
    /\ responses = <<>>
    /\ clients = <<>>
    /\ sockets = <<>>
    /\ hubLog = <<>>
    /\ genPrompt = <<>>
    /\ genFlow = <<>>
    /\ apiResponse = <<>>
    /\ parsedFlow = NotParsed
    /\ returned = NoCall
    /\ home = Mounted

Next ==
    \/ \E p \in Prompts : SubmitInline(p)
    \/ \E p \in Prompts : SubmitPolling(p)
    \/ \E r \in DOMAIN runs : TimerService(r)
    \/ \E r \in DOMAIN runs : PollTick(r)
    \/ \E r \in DOMAIN runs, reply \in Replies : FetchReply(r, reply)
    \/ \E r \in DOMAIN runs : TimerInline(r)

Spec == Init /\ [][Next]_vars

\* The server together with callers of the exported service.
NextApi ==
    \/ Next
    \/ \E t \in TaskIds, p \in Prompts : CallProcessTask(t, p)
    \/ \E r \in DOMAIN runs, reply \in Replies : ExtFetchReply(r, reply)

ApiSpec == Init /\ [][NextApi]_vars

\* Callers of the store alone.
StoreNext ==
    \/ \E p \in Prompts : StoreCreateTask(p)
    \/ \E id \in TaskIds, st \in StoreStatuses : StoreUpdateTaskStatus(id, st)
    \/ \E t \in TaskIds, step \in StoreSteps : StoreCreateMessage(t, step)
    \/ ClockTick

StoreSpec == Init /\ [][StoreNext]_vars

\* Callers of the store's task operations, with any arguments.
Statuses == {"pending", "processing", "completed", "failed"}
TaskNext ==
    \/ \E p \in Prompts : StoreCreateTask(p)
    \/ \E id \in TaskIds, st \in Statuses, at \in {"date", "null"} :
           CallUpdateTaskStatus(id, st, at)

TaskSpec == Init /\ [][TaskNext]_vars

\* The hub, its observers and a task store in use.
HubNext ==
    \/ \E id \in ClientIds, broken \in BOOLEAN : OnConnection(id, broken)
    \/ \E ws \in DOMAIN sockets : SocketBreaks(ws)
    \/ \E ws \in DOMAIN sockets : SocketCloses(ws)
    \/ \E ws \in DOMAIN sockets : OnError(ws)
    \/ \E ws \in DOMAIN sockets : OnClose(ws)
    \/ \E data \in HubData : HubBroadcast(data)
    \/ \E p \in Prompts : StoreCreateTask(p)

HubSpec == Init /\ [][HubNext]_vars

\* The generator of the polling routes' service, given any prompt.
GenInit ==
    /\ variant = "polling"
    /\ tasks = <<>>
    /\ currentTaskId = 1
    /\ messages = <<>>
    /\ currentMessageId = 1
    /\ now = 0
    /\ activeProcessing = [t \in TaskIds |-> FALSE]
    /\ runs = <<>>
    /\ events = [t \in TaskIds |-> <<>>]
    /\ responses = <<>>
    /\ clients = <<>>
    /\ sockets = <<>>
    /\ hubLog = <<>>
    /\ genPrompt \in GenPrompts
    /\ genFlow = <<>>
    /\ apiResponse = <<>>
    /\ parsedFlow = NotParsed
    /\ returned = NoCall
    /\ home = Mounted

GenNext == Generate

GenSpec == GenInit /\ [][GenNext]_vars

\* The parsers of the inline deployment, given any array of one-key
\* objects.
ParseInit ==
    /\ variant = "inline"
    /\ tasks = <<>>
    /\ currentTaskId = 1
    /\ messages = <<>>
    /\ currentMessageId = 1
    /\ now = 0
    /\ activeProcessing = [t \in TaskIds |-> FALSE]
    /\ runs = <<>>
    /\ events = [t \in TaskIds |-> <<>>]
    /\ responses = <<>>
    /\ clients = <<>>
    /\ sockets = <<>>
    /\ hubLog = <<>>
    /\ genPrompt = <<>>
    /\ genFlow = <<>>
    /\ apiResponse \in ApiResponses
    /\ parsedFlow = NotParsed
    /\ returned = NoCall
    /\ home = Mounted

ParseNext == ParseInline \/ ParseService

ParseSpec == ParseInit /\ [][ParseNext]_vars

----------------------------------------------------------------------------
(* Properties. *)

RunIds == DOMAIN runs
EventsOf(taskId, type) ==
    {k \in DOMAIN events[taskId] : events[taskId][k].type = type}
TerminalEvents == {"taskCompleted", "taskError"}
Changes == {<<"pending", "processing">>, <<"processing", "completed">>,
            <<"processing", "failed">>}

\* C1: every change of a task's status is pending->processing,
\* processing->completed or processing->failed, so a completed or failed
\* task keeps its status, whatever submissions and processTask calls occur.
C1_StatusChanges ==
    [][\A t \in DOMAIN tasks :
          tasks'[t].status # tasks[t].status
          => <<tasks[t].status, tasks'[t].status>> \in Changes]_vars

\* C3: at most one run is in progress for a task id at any time.
C3_OneRunPerTask ==
    \A r1, r2 \in RunIds :
        Running(r1) /\ Running(r2) /\ runs[r1].taskId = runs[r2].taskId
        => r1 = r2

\* C5: once the POST has been handled and the created task returned,
\* getTask of that task gives status pending.
C5_PendingAfterSubmit ==
    [][\A t \in DOMAIN responses' \ DOMAIN responses :
          getTask(tasks', t).status = "pending"]_vars

\* C9: a reply with success status whose body is unparseable, or is JSON of
\* another shape than a sequence (an object, a number, a string, null),
\* never leaves the task completed.
C9_BadShapeFails ==
    \A r \in RunIds :
        /\ runs[r].flow.outcome = "ok"
        /\ runs[r].flow.json \in {"unparseable", "object", "number",
                                  "string", "null"}
        => getTask(tasks, runs[r].taskId).status # "completed"

\* The runs take their steps: timers fire, and every request to the oracle
\* ends in a reply or a failure.
Fairness ==
    \A r \in 1..MaxRuns :
        /\ WF_vars(r \in DOMAIN runs /\ \E reply \in Replies : FetchReply(r, reply))
        /\ WF_vars(r \in DOMAIN runs /\ TimerInline(r))
        /\ WF_vars(r \in DOMAIN runs /\ TimerService(r))

FairSpec == Init /\ [][Next]_vars /\ Fairness

\* C2: every submitted task eventually has status completed or failed, and
\* once it has one of them it keeps it.
C2_EventuallyTerminal ==
    /\ \A t \in TaskIds :
          [](t \in DOMAIN tasks
             => <>(t \in DOMAIN tasks /\ tasks[t].status \in Terminal))
    /\ [][\A t \in DOMAIN tasks :
             tasks[t].status \in Terminal
             => tasks'[t].status = tasks[t].status]_vars

C2_Witness ==
    \E t1, t2 \in DOMAIN tasks :
        tasks[t1].status = "completed" /\ tasks[t2].status = "failed"

\* C4: a processTask call for a task id whose processTask run is still in
\* progress is rejected and changes nothing: the task, the stored messages,
\* the active set and the runs in progress stay as they were, and the
\* rejected call never writes a message.
ServiceRunning(t) ==
    \E r \in RunIds :
        Running(r) /\ runs[r].kind # "inline" /\ runs[r].taskId = t

C6_OneTerminalEvent ==
    \A t \in DOMAIN tasks :
        LET nC == Cardinality(EventsOf(t, "taskCompleted"))
            nE == Cardinality(EventsOf(t, "taskError")) IN
        /\ tasks[t].status = "completed" => nC = 1 /\ nE = 0
        /\ tasks[t].status = "failed" => nC = 0 /\ nE = 1
        /\ tasks[t].status \notin Terminal => nC = 0 /\ nE = 0

C6_Witness ==
    \E t1, t2 \in DOMAIN tasks :
        /\ tasks[t1].status = "completed"
        /\ EventsOf(t1, "taskCompleted") # {}
        /\ tasks[t2].status = "failed"
        /\ EventsOf(t2, "taskError") # {}

\* C7: no taskProgress event of a task is broadcast after the task's
\* taskCompleted or taskError.
C7_TerminalEventIsLast ==
    \A t \in TaskIds :
        \A j, k \in DOMAIN events[t] :
            j < k /\ events[t][j].type \in TerminalEvents
            => events[t][k].type # "taskProgress"

C7_Witness ==
    \E t \in TaskIds :
        \E j, k \in DOMAIN events[t] :
            /\ j < k
            /\ events[t][j].type = "taskProgress"
            /\ events[t][k].type \in TerminalEvents
            /\ \E r \in RunIds : runs[r].taskId = t /\ runs[r].ticks > 0

\* C8: when the oracle answers with an HTTP error status the task ends
\* failed, exactly one taskError is broadcast for it and no message is
\* stored for it.
C8_HttpErrorFails ==
    \A r \in RunIds :
        runs[r].flow.outcome = "httpError"
        => LET t == runs[r].taskId IN
           /\ getTask(tasks, t).status = "failed"
           /\ Cardinality(EventsOf(t, "taskError")) = 1
           /\ getTaskMessages(messages, t) = <<>>

C8_Witness ==
    \E r \in RunIds :
        /\ runs[r].flow.outcome = "httpError" /\ runs[r].pc = "done"
        /\ EventsOf(runs[r].taskId, "taskError") # {}

\* C10: when emitting step k throws, the task is failed and a taskError
\* with its id is broadcast; the task's messages are the steps before k,
\* once each and in order, and no step from k on is ever among them.
Content(m) ==
    [agent |-> m.agent, message |-> m.message, messageType |-> m.messageType]

C10_StepErrorKeepsPrefix ==
    \A r \in RunIds :
        runs[r].error = "step"
        => LET t == runs[r].taskId
               k == runs[r].i
               ms == getTaskMessages(messages, t) IN
           /\ getTask(tasks, t).status = "failed"
           /\ \E e \in EventsOf(t, "taskError") : events[t][e].run = r
           /\ Len(ms) = k
           /\ \A j \in 1..k : Content(ms[j]) = InlineStep(runs[r].flow.items[j])

C10_Witness ==
    \E r \in RunIds :
        /\ runs[r].error = "step" /\ runs[r].i >= 1
        /\ Len(getTaskMessages(messages, runs[r].taskId)) = runs[r].i

----------------------------------------------------------------------------
\* The steps run r has to emit, as the messages it stores for them.
StepsOf(r) ==
    IF runs[r].kind = "inline"
    THEN [j \in DOMAIN runs[r].flow.items |-> InlineStep(runs[r].flow.items[j])]
    ELSE runs[r].flow.items

ContentsOf(ms) == [j \in DOMAIN ms |-> Content(ms[j])]

\* progress = k
Percent(p, k) == p.n = k * p.d

\* C11: whenever a taskCompleted event has been broadcast by a run, all the
\* steps of that run are stored as the task's messages, the task is
\* completed with a completedAt that is not null, and the event carries
\* status completed, progress 100 and supervisor, phone and venmo complete.
C11_CompletedAfterSteps ==
    \A t \in TaskIds :
        \A k \in EventsOf(t, "taskCompleted") :
            LET e == events[t][k] IN
            /\ ContentsOf(getTaskMessages(messages, t)) = StepsOf(e.run)
            /\ getTask(tasks, t).status = "completed"
            /\ getTask(tasks, t).completedAt # "null"
            /\ e.status = "completed"
            /\ Percent(e.progress, 100)
            /\ \A a \in Agents : e.agentStatus[a] = "complete"

C11_Witness ==
    \E t1, t2 \in TaskIds :
        /\ EventsOf(t1, "taskCompleted") # {}
        /\ Len(getTaskMessages(messages, t1)) = MaxSteps
        /\ EventsOf(t2, "taskCompleted") # {}
        /\ getTaskMessages(messages, t2) = <<>>

\* C12: every step a run of a submitted task has persisted is the
\* currentMessage of a taskProgress event broadcast before the run's next
\* step, so once the run has ended, each of its messages has been announced
\* by a taskProgress event.
C12_EachStepAnnounced ==
    \A r \in RunIds :
        runs[r].route /\ runs[r].pc = "done"
        => \A k \in DOMAIN messages :
              messages[k].run = r
              => \E e \in EventsOf(runs[r].taskId, "taskProgress") :
                    events[runs[r].taskId][e].cur = messages[k].id

\* C13: every taskProgress event of a task shows as currentMessage a
\* message that is stored for that task, so none is sent before the task's
\* first step has been persisted.
C13_ProgressShowsStoredStep ==
    \A t \in TaskIds :
        \A e \in EventsOf(t, "taskProgress") :
            \E k \in DOMAIN messages :
                /\ messages[k].id = events[t][e].cur
                /\ messages[k].taskId = t

\* The snapshots pushed for a task, and the steps that push one.
Snapshots(E, t) ==
    {k \in DOMAIN E[t] : E[t][k].type \in {"taskProgress", "taskCompleted"}}

\* C14: while a task is not terminal, the progress values of its snapshots
\* never go down in time order: a pushed snapshot is at most every later
\* pushed one and at most what the progress lookup returns from then on,
\* and a lookup is at most every later lookup and every later push.
C14_ProgressNonDecreasing ==
    /\ [](\A t \in DOMAIN tasks :
            tasks[t].status \notin Terminal
            => /\ \A j, k \in Snapshots(events, t) :
                     j < k => FracLeq(events[t][j].progress,
                                      events[t][k].progress)
               /\ \A k \in Snapshots(events, t) :
                     FracLeq(events[t][k].progress,
                             getTaskProgress(tasks, messages, t).progress))
    /\ [][\A t \in DOMAIN tasks :
             tasks'[t].status \notin Terminal
             => /\ FracLeq(getTaskProgress(tasks, messages, t).progress,
                           getTaskProgress(tasks', messages', t).progress)
                /\ \A k \in Snapshots(events', t) \ Snapshots(events, t) :
                      FracLeq(getTaskProgress(tasks, messages, t).progress,
                              events'[t][k].progress)]_vars

\* C15: the progress of every snapshot, pushed or looked up, lies in 0..100,
\* is 100 when the snapshot's status is completed and at most 95 when it is
\* processing; the estimate stays at most 95 for every message count.
InRange(snap) ==
    /\ FracLeq(Frac(0, 1), snap.progress)
    /\ FracLeq(snap.progress, Frac(100, 1))
    /\ snap.status = "completed" => Percent(snap.progress, 100)
    /\ snap.status = "processing" => FracLeq(snap.progress, Frac(95, 1))

EstimateCapped ==
    \A n \in 0..MaxCount, kind \in ServiceKinds :
        InRange([status |-> "processing",
                 progress |-> Estimate(n, ExpectedSteps(kind))])

C15_ProgressRange ==
    /\ \A t \in TaskIds : \A k \in Snapshots(events, t) : InRange(events[t][k])
    /\ \A t \in DOMAIN tasks : InRange(getTaskProgress(tasks, messages, t))
    /\ EstimateCapped

C15_Witness ==
    \E t1, t2 \in DOMAIN tasks :
        /\ tasks[t1].status = "processing"
        /\ getTaskMessages(messages, t1) # <<>>
        /\ \E k \in EventsOf(t1, "taskProgress") : events[t1][k].cur # 0
        /\ tasks[t2].status = "completed"
        /\ EventsOf(t2, "taskCompleted") # {}

\* C16: the progress lookup of a failed task returns the value it returned
\* last while the task was processing, that is the estimate for the
\* messages the task has (none is written after the failure).
C16_FailedKeepsProgress ==
    \A t \in DOMAIN tasks :
        tasks[t].status = "failed"
        => LET kept == ProgressOf("processing",
                                  Len(getTaskMessages(messages, t)))
               got == getTaskProgress(tasks, messages, t).progress IN
           FracLeq(kept, got) /\ FracLeq(got, kept)

\* C17: in every snapshot, pushed or looked up, all three agents are
\* complete when the status is completed; otherwise none is complete, and
\* the agent of the message the snapshot shows is active and the others
\* are idle.
AgentOf(mid) ==
    LET k == CHOOSE k \in DOMAIN messages : messages[k].id = mid IN
    messages[k].agent

AgentsAgree(snap) ==
    IF snap.status = "completed"
    THEN \A a \in Agents : snap.agentStatus[a] = "complete"
    ELSE /\ \A a \in Agents : snap.agentStatus[a] # "complete"
         /\ snap.cur # 0
            => \A a \in Agents :
                  snap.agentStatus[a] =
                      IF AgentOf(snap.cur) = a THEN "active" ELSE "idle"

C17_AgentStatusDerived ==
    /\ \A t \in TaskIds :
          \A k \in Snapshots(events, t) : AgentsAgree(events[t][k])
    /\ \A t \in DOMAIN tasks : AgentsAgree(getTaskProgress(tasks, messages, t))

----------------------------------------------------------------------------
Ids(ms) == {ms[j].id : j \in DOMAIN ms}

\* C18: getTaskMessages(taskId) holds exactly the stored messages of that
\* task, each once, with timestamps that never go down, in the order they
\* were created (ids go up), also among messages of equal timestamp.
C18_MessagesInEmissionOrder ==
    \A t \in TaskIds :
        LET ms == getTaskMessages(messages, t) IN
        /\ Ids(ms) = {messages[k].id :
                         k \in {k \in DOMAIN messages : messages[k].taskId = t}}
        /\ Cardinality(Ids(ms)) = Len(ms)
        /\ \A j, k \in DOMAIN ms :
              j < k => /\ ms[j].timestamp <= ms[k].timestamp
                       /\ ms[j].id < ms[k].id

C18_Witness ==
    \E t \in TaskIds :
        LET ms == getTaskMessages(messages, t) IN
        /\ Len(ms) = 3
        /\ ms[1].timestamp = ms[2].timestamp
        /\ ms[2].timestamp < ms[3].timestamp

IsPrefix(a, b) == Len(a) <= Len(b) /\ SubSeq(b, 1, Len(a)) = a

\* C19: in every step, what getTaskMessages returned for a task before is a
\* prefix of what it returns after, and every stored message is still
\* stored, unchanged.
C19_AppendOnly ==
    [][/\ \A t \in TaskIds :
             IsPrefix(getTaskMessages(messages, t),
                      getTaskMessages(messages', t))
       /\ IsPrefix(messages, messages')]_vars

C19_Witness ==
    \E t1, t2 \in TaskIds :
        /\ t1 # t2
        /\ Len(getTaskMessages(messages, t1)) >= 2
        /\ getTaskMessages(messages, t2) # <<>>
        /\ messages[1].taskId = t1 /\ messages[2].taskId = t2
        /\ now > messages[Len(messages)].timestamp

\* C20: the taskId of every stored message is the id of a stored task,
\* also after processTask has been called with an id the store does not
\* know.
C20_MessagesHaveTask ==
    \A k \in DOMAIN messages : messages[k].taskId \in DOMAIN tasks

----------------------------------------------------------------------------
(* The hub. *)

BroadcastStep == Len(hubLog') = Len(hubLog) + 1
Unsendable(ws) == sockets[ws].readyState # OPEN \/ sockets[ws].broken
Outcomes(b) == [k \in DOMAIN b.visited |-> b.visited[k].outcome]

\* C21: a broadcast never raises; every registered connection is attempted;
\* one found not open, or whose send throws, is removed from the registry
\* during that broadcast and receives nothing; afterwards no connection
\* that was closed at the start is still registered.
C21_BroadcastNeverRaises ==
    [][BroadcastStep =>
         LET b == hubLog'[Len(hubLog')] IN
         /\ ~b.threw
         /\ [k \in DOMAIN b.visited |-> b.visited[k].ws]
                = [k \in DOMAIN clients |-> clients[k].ws]
         /\ \A ws \in Registered(clients) :
                Unsendable(ws) =>
                    /\ ws \notin Registered(clients')
                    /\ sockets'[ws].received = sockets[ws].received
         /\ \A ws \in Registered(clients') :
                sockets[ws].readyState = OPEN]_vars

\* A broadcast went on to deliver after a send had thrown, and a broadcast
\* pruned a closed connection.
C21_Witness ==
    /\ \E n \in DOMAIN hubLog :
           /\ ~hubLog[n].threw
           /\ Outcomes(hubLog[n]) = <<"threw", "sent">>
    /\ \E n \in DOMAIN hubLog : Outcomes(hubLog[n]) = <<"closed">>

Received(ws, n) == {i \in DOMAIN sockets[ws].received :
                        sockets[ws].received[i].n = n}

\* C22: each broadcast, for whatever task, is delivered exactly once to
\* every observer registered and open when it is made and to nobody else;
\* no observer ever holds the same broadcast twice.
C22_DeliveredOncePerBroadcast ==
    /\ [](\A ws \in DOMAIN sockets, n \in DOMAIN hubLog :
              Cardinality(Received(ws, n)) <= 1)
    /\ [][BroadcastStep =>
             LET n == Len(hubLog')
                 message == Message(hubLog'[n].data, n) IN
             \A ws \in DOMAIN sockets :
                 sockets'[ws].received =
                     IF ws \in Registered(clients) /\ ~Unsendable(ws)
                     THEN Append(sockets[ws].received, message)
                     ELSE sockets[ws].received]_vars

\* Two observers hold the events of two tasks, one copy of each.
C22_Witness ==
    /\ Len(hubLog) = 2 /\ hubLog[1].data.taskId # hubLog[2].data.taskId
    /\ \E a, b \in DOMAIN sockets :
           /\ a # b
           /\ \A ws \in {a, b}, n \in DOMAIN hubLog :
                  Cardinality(Received(ws, n)) = 1

Handshakes(ws) == {i \in DOMAIN sockets[ws].received :
                       sockets[ws].received[i].type = "connected"}
IsHandshake(S, ws, i) ==
    /\ S[ws].received[i].type = "connected"
    /\ S[ws].received[i].clientId = S[ws].clientId

\* C23: a new connection is registered under its id and is sent one
\* connected event carrying that id; whatever a connection has received
\* starts with that handshake, which it receives once.
C23_HandshakeFirst ==
    /\ [](\A ws \in DOMAIN sockets :
              sockets[ws].received # <<>> =>
                  /\ IsHandshake(sockets, ws, 1)
                  /\ Handshakes(ws) = {1})
    /\ [][Len(sockets') = Len(sockets) + 1 =>
             LET ws == Len(sockets')
                 id == sockets'[ws].clientId IN
             /\ \E k \in DOMAIN clients' :
                    clients'[k] = [clientId |-> id, ws |-> ws]
             /\ IF sockets'[ws].broken
                THEN sockets'[ws].received = <<>>
                ELSE /\ Len(sockets'[ws].received) = 1
                     /\ IsHandshake(sockets', ws, 1)]_vars

\* An observer has its handshake and then a broadcast.
C23_Witness ==
    \E ws \in DOMAIN sockets :
        /\ Len(sockets[ws].received) = 2
        /\ IsHandshake(sockets, ws, 1)
        /\ sockets[ws].received[2].type = "taskProgress"

store == <<tasks, currentTaskId, messages, currentMessageId>>

\* C24: a broadcast made while the registry is empty raises nothing, leaves
\* the registry empty and the task store as it was, and reaches nobody.
C24_EmptyBroadcastNoOp ==
    [][BroadcastStep /\ clients = <<>> =>
           /\ ~hubLog'[Len(hubLog')].threw
           /\ clients' = <<>>
           /\ store' = store
           /\ sockets' = sockets]_vars

\* A broadcast found nobody registered, with tasks in the store and an
\* observer that had been connected before.
C24_Witness ==
    /\ tasks # <<>> /\ sockets # <<>> /\ clients = <<>>
    /\ hubLog # <<>> /\ hubLog[Len(hubLog)].visited = <<>>
    /\ ~hubLog[Len(hubLog)].threw

----------------------------------------------------------------------------
(* The response to POST /api/tasks. *)

\* C25: the response to a submission is the created task, given when the
\* record exists, before any step of the task is stored and before the run
\* is over; nothing that happens later changes a response already given.
C25_ResponseBeforeSteps ==
    [][/\ \A t \in DOMAIN responses' \ DOMAIN responses :
              /\ t \in DOMAIN tasks'
              /\ responses'[t] = [tasks'[t] EXCEPT !.status = "pending"]
              /\ Own(messages', t) = {}
              /\ tasks'[t].status \notin Terminal
       /\ \A t \in DOMAIN responses : responses'[t] = responses[t]]_vars

\* A run failed after storing a step; the response given is the pending
\* task.
C25_Witness ==
    \E t \in DOMAIN responses :
        /\ tasks[t].status = "failed"
        /\ Own(messages, t) # {}
        /\ responses[t].status = "pending"

----------------------------------------------------------------------------
(* The local generator. *)

Times(n, x) == [k \in 1..n |-> x]

\* A supervisor step by its message type, another step by its agent.
Shape(step) ==
    IF step.agent = "supervisor" THEN step.messageType ELSE step.agent

\* C26: the flow is analysis, planning, then with payment intent a
\* delegation and 5 venmo steps, with both intents a coordination, with call
\* intent 7 phone steps, and the supervisor's completion; it has 3, 9, 10 or
\* 17 steps.
C26_FlowSkeleton ==
    genFlow # <<>> =>
        LET pay == containsPaymentKeywords(genPrompt)
            call == containsCallKeywords(genPrompt) IN
        /\ [k \in DOMAIN genFlow |-> Shape(genFlow[k])]
              = <<"analysis", "planning">>
                \o (IF pay THEN <<"delegation">> \o Times(5, "venmo")
                    ELSE <<>>)
                \o (IF pay /\ call THEN <<"coordination">> ELSE <<>>)
                \o (IF call THEN Times(7, "phone") ELSE <<>>)
                \o <<"completion">>
        /\ Len(genFlow) = (IF pay /\ call THEN 17 ELSE IF call THEN 10
                           ELSE IF pay THEN 9 ELSE 3)
        /\ genFlow[Len(genFlow)].agent = "supervisor"

\* A prompt with both intents was given a flow of 17 steps.
C26_Witness ==
    /\ containsPaymentKeywords(genPrompt) /\ containsCallKeywords(genPrompt)
    /\ Len(genFlow) = 17

Alex == <<"A", "l", "e", "x">>
SendAlex ==
    <<"S", "e", "n", "d", " ">> \o Alex \o <<" ", "$", "3", "2", ".", "5", "0">>
Shapes(flow) == [k \in DOMAIN flow |-> Shape(flow[k])]
Summary(flow) == CHOOSE text \in flow[Len(flow)].message : TRUE

\* C27: for "Send Alex $32.50" the generator finds payment intent only,
\* extracts the amount $32.50 and the recipient Alex, gives analysis,
\* planning, a delegation, 5 venmo steps and a completion whose summary
\* says that $32.50 was sent to Alex via Venmo.
C27_SendAlexExample ==
    genPrompt = SendAlex /\ genFlow # <<>> =>
        /\ containsPaymentKeywords(genPrompt)
        /\ ~containsCallKeywords(genPrompt)
        /\ extractAmount(genPrompt) = <<"$", "3", "2", ".", "5", "0">>
        /\ extractRecipient(genPrompt) = Alex
        /\ Shapes(genFlow) = <<"analysis", "planning", "delegation">>
                             \o Times(5, "venmo") \o <<"completion">>
        /\ includes(Summary(genFlow),
                    <<"* ", "$", "3", "2", ".", "5", "0", " sent to ">>
                    \o Alex \o <<" via Venmo [ok]\n">>)

\* C28: a prompt with no payment keyword and no call keyword gets exactly
\* analysis, planning and completion, and the summary is the header alone.
C28_NoKeywordsHeaderOnly ==
    /\ genFlow # <<>>
    /\ ~containsPaymentKeywords(genPrompt)
    /\ ~containsCallKeywords(genPrompt)
    => /\ Shapes(genFlow) = <<"analysis", "planning", "completion">>
       /\ Summary(genFlow) = SummaryHeader

----------------------------------------------------------------------------
(* The agents of the external strategy. *)

AgentNames == {"user", "supervisor", "phone", "venmo"}

\* C29: every step made of the oracle's reply has an agent among user,
\* supervisor, phone and venmo, whatever the spelling of the reply's key.
C29_AgentsNormalized ==
    \A k \in DOMAIN parsedFlow.flow :
        parsedFlow.flow[k].agent \in AgentNames

----------------------------------------------------------------------------
(* Pushed and looked-up progress. *)

\* C30: a taskProgress event carries the progress and the agentStatus that
\* getTaskProgress gives for its task when the event is published.
C30_PushedEqualsLookup ==
    [][\A t \in TaskIds :
          \A k \in Snapshots(events', t) \ Snapshots(events, t) :
              LET pushed == events'[t][k]
                  looked == getTaskProgress(tasks', messages', t) IN
              /\ FracLeq(pushed.progress, looked.progress)
              /\ FracLeq(looked.progress, pushed.progress)
              /\ pushed.agentStatus = looked.agentStatus]_vars

----------------------------------------------------------------------------
(* The store's task operations. *)

\* C31: a task whose status is pending or processing has completedAt null,
\* whatever store operations came before, and updateTaskStatus on an
\* unknown id returns undefined and changes nothing in the store.
C31_CompletedAtOnlyTerminal ==
    /\ [](\A t \in DOMAIN tasks :
              tasks[t].status \in {"pending", "processing"}
              => tasks[t].completedAt = "null")
    /\ [][returned' # returned /\ ~returned'.found => store' = store]_vars

----------------------------------------------------------------------------
(* The services' marker. *)

\* C32: the marker of a task id is set exactly while a processTask run for
\* that id is in progress, so it is cleared when the run has ended,
\* completed or failed; a rejected call leaves the marker of the run in
\* progress set.
C32_MarkerWhileRunning ==
    /\ [](\A t \in TaskIds : activeProcessing[t] <=> ServiceRunning(t))
    /\ [][\A t \in TaskIds :
             ( /\ Len(runs') = Len(runs) + 1
               /\ runs'[Len(runs')].taskId = t
               /\ runs'[Len(runs')].result = "rejected" )
             => activeProcessing[t] /\ activeProcessing'[t]]_vars

\* A call was rejected while the run that holds the marker goes on.
C32_Witness ==
    \E r \in RunIds :
        /\ runs[r].result = "rejected"
        /\ activeProcessing[runs[r].taskId]
        /\ ServiceRunning(runs[r].taskId)

----------------------------------------------------------------------------
(* Runs of two tasks that interleave. *)

\* The step run r emits at position j, as the message stored for it.
StepOf(r, j) ==
    IF runs[r].kind = "inline" THEN InlineStep(runs[r].flow.items[j])
    ELSE runs[r].flow.items[j]

\* The runs that take the step.
Stepping == {r \in DOMAIN runs' : r \notin DOMAIN runs \/ runs'[r] # runs[r]}

\* C33: with the runs of two tasks interleaved at their pacing sleeps, the
\* messages stored for a task are the steps of its own run, once each and
\* in the order the run emits them, and a step of a run changes the status
\* and the messages of no task but its own.
C33_InterleavedRunsKeepApart ==
    /\ [](\A r \in RunIds :
             LET ms == getTaskMessages(messages, runs[r].taskId) IN
             /\ Len(ms) <= Len(runs[r].flow.items)
             /\ \A j \in DOMAIN ms :
                   ms[j].run = r /\ Content(ms[j]) = StepOf(r, j))
    /\ [][ /\ \A t \in DOMAIN tasks :
                tasks'[t] # tasks[t]
                => \E r \in Stepping : runs'[r].taskId = t
           /\ \A k \in DOMAIN messages :
                k \in DOMAIN messages' /\ messages'[k] = messages[k]
           /\ \A k \in DOMAIN messages' \ DOMAIN messages :
                \E r \in Stepping : runs'[r].taskId = messages'[k].taskId
           /\ Cardinality(Stepping) <= 1 ]_vars

\* Two runs are in progress and the first has stored a step before and a
\* step after a step of the second.
C33_Witness ==
    /\ Len(messages) = 3
    /\ messages[1].taskId = messages[3].taskId
    /\ messages[2].taskId # messages[1].taskId
    /\ messages[1].run # messages[2].run

----------------------------------------------------------------------------
(* The progress poller of the polling routes. *)

\* The interval's timer keeps firing while the interval is set.
PollerFairness ==
    \A r \in 1..MaxRuns : WF_vars(r \in DOMAIN runs /\ PollTick(r))

\* The server and the callers of the service, with the timers firing.
FairApiSpec == Init /\ [][NextApi]_vars /\ Fairness /\ PollerFairness

\* The poller of run r is set and its task has ended.
PollerOutlives(r) ==
    /\ r \in DOMAIN runs /\ runs[r].poller
    /\ runs[r].taskId \in DOMAIN tasks
    /\ tasks[runs[r].taskId].status \in Terminal

\* C34: with the polling routes, a progress poller whose task is completed
\* or failed is eventually stopped, whether processTask returned or threw,
\* and a stopped poller is not started again and broadcasts no further
\* taskProgress.
C34_PollerEventuallyStopped ==
    /\ \A r \in 1..MaxRuns :
          PollerOutlives(r) ~> (r \in DOMAIN runs /\ ~runs[r].poller)
    /\ [][\A r \in DOMAIN runs :
             runs[r].route /\ runs[r].kind = "agent" /\ ~runs[r].poller
             => /\ ~runs'[r].poller
                /\ \A k \in DOMAIN events'[runs[r].taskId] :
                      /\ k \notin DOMAIN events[runs[r].taskId]
                      /\ events'[runs[r].taskId][k].type = "taskProgress"
                      => events'[runs[r].taskId][k].run # r]_vars

\* processTask threw, and the poller the wrapper left running has stopped
\* itself on a tick.
C34_Witness ==
    \E r \in RunIds :
        /\ runs[r].route /\ runs[r].result = "rejected"
        /\ runs[r].ticks >= 1 /\ ~runs[r].poller

----------------------------------------------------------------------------
(* The page and the server. *)

HomeNext ==
    \/ Next
    \/ HomeOnOpen
    \/ \E t \in TaskIds : HomeOnMessage(t)
    \/ HomeOnClose
    \/ HomeReconnect
    \/ HomeCleanup
    \/ HomeProcessTask
    \/ \E t \in TaskIds : HomeOnSuccess(t)

HomeSpec == Init /\ [][HomeNext]_vars

\* The browser runs the handlers of what has arrived, and a timer that is
\* set fires.
HomeFairness ==
    /\ WF_vars(HomeOnOpen)
    /\ WF_vars(HomeReconnect)
    /\ \A t \in TaskIds : WF_vars(HomeOnMessage(t))
    /\ \A t \in TaskIds : WF_vars(HomeOnSuccess(t))

FairHomeSpec == Init /\ [][HomeNext]_vars /\ Fairness /\ HomeFairness

\* The page shows a task as processing whose terminal event was broadcast
\* while the page's socket was not open, and the socket is open again.
MissedTerminal ==
    /\ home.mounted /\ home.ws = "open" /\ home.opened >= 2
    /\ home.isProcessing /\ home.currentTask # 0
    /\ home.lost[home.currentTask]

\* C35: if the page was disconnected when the terminal event of its task
\* was broadcast, then once it has reconnected it eventually leaves its
\* processing state, so that it can submit again.
C35_ReconnectedLeavesProcessing == MissedTerminal ~> ~home.isProcessing

\* C36: once the connection effect has been cleaned up, the page opens no
\* further WebSocket: the close caused by the cleanup schedules no
\* reconnect.
C36_NoConnectionAfterCleanup ==
    [][~home.mounted
       => /\ home'.opened = home.opened
          /\ ~home'.reconnectTimeout]_vars

----------------------------------------------------------------------------
(* Ids. *)

\* C37: createTask gives every task an id that no task was given before,
\* createMessage does the same for messages, and no operation changes the
\* id or the prompt of a stored task.
C37_IdsUniqueAndImmutable ==
    /\ [](/\ \A t \in DOMAIN tasks : tasks[t].id = t /\ t < currentTaskId
          /\ \A j, k \in DOMAIN messages :
                /\ messages[j].id < currentMessageId
                /\ j # k => messages[j].id # messages[k].id)
    /\ [][/\ currentTaskId' >= currentTaskId
          /\ currentMessageId' >= currentMessageId
          /\ \A t \in DOMAIN tasks' \ DOMAIN tasks :
                tasks'[t].id >= currentTaskId
          /\ \A k \in DOMAIN messages' \ DOMAIN messages :
                messages'[k].id >= currentMessageId
          /\ \A t \in DOMAIN tasks :
                /\ t \in DOMAIN tasks'
                /\ tasks'[t].id = tasks[t].id
                /\ tasks'[t].prompt = tasks[t].prompt]_vars

\* Two tasks and two messages are stored, and the status of a task has
\* been updated.
C37_Witness ==
    /\ Cardinality(DOMAIN tasks) = 2
    /\ Len(messages) >= 2
    /\ \E t \in DOMAIN tasks : tasks[t].status # "pending"

============================================================================
